---- MODULE Spec2Model ----
(***************************************************************************)
(* Model of the procs core: the terminal-text utilities (truncate,        *)
(* adjust), the keyword search engine (find_partial, find_exact), the     *)
(* Command column and its path abbreviation, and the theme resolver.      *)
(*                                                                         *)
(* A string is a sequence of characters; a character is a one-element     *)
(* TLA+ string, except the named characters ESC (U+001B), WIDE (a         *)
(* double-width character), ZW (a zero-width combining character), NL     *)
(* (newline), TAB, and the non-ASCII letters UE (an uppercase one) and    *)
(* le (its lowercase form).                                                *)
(***************************************************************************)
EXTENDS Integers, Sequences, FiniteSets, TLC

VARIABLES
    t_s, t_width, t_op, t_out, t_prev, t_align, t_cw,
    q_columns, q_keyword, q_logic, q_case, q_op, q_ret, q_calls,
    th_opt, th_config, th_tty, th_pc, th_theme, th_timeout, th_probe, th_ret,
    env_home, f_cmd, f_abbr, f_op, f_store, f_out,
    backend, abbr_path, fmt_contents, raw_contents, last_added

textVars == <<t_s, t_width, t_op, t_out, t_prev, t_align, t_cw>>

searchVars == <<q_columns, q_keyword, q_logic, q_case, q_op, q_ret, q_calls>>

themeVars == <<th_opt, th_config, th_tty, th_pc, th_theme, th_timeout, th_probe, th_ret>>

abbrVars == <<env_home, f_cmd, f_abbr, f_op, f_store, f_out>>

cmdVars == <<backend, abbr_path, fmt_contents, raw_contents, last_added>>

vars == <<textVars, searchVars, themeVars, abbrVars, cmdVars>>

(***************************************************************************)
(* Each specification exercises one component; the variables of the other *)
(* components rest at these values.                                        *)
(***************************************************************************)
TextIdle ==
    /\ t_s = <<>>
    /\ t_width = 0
    /\ t_op = "idle"
    /\ t_out = <<>>
    /\ t_prev = <<>>
    /\ t_align = "Left"
    /\ t_cw = 0

SearchIdle ==
    /\ q_columns = <<>>
    /\ q_keyword = <<>>
    /\ q_logic = "And"
    /\ q_case = "Smart"
    /\ q_op = "idle"
    /\ q_ret = FALSE
    /\ q_calls = <<>>

ThemeIdle ==
    /\ th_opt = "None"
    /\ th_config = "Dark"
    /\ th_tty = [stdout |-> FALSE, stderr |-> FALSE, stdin |-> FALSE]
    /\ th_pc = "idle"
    /\ th_theme = "None"
    /\ th_timeout = 0
    /\ th_probe = <<>>
    /\ th_ret = "None"

AbbrIdle ==
    /\ env_home = "Unset"
    /\ f_cmd = <<>>
    /\ f_abbr = FALSE
    /\ f_op = "idle"
    /\ f_store = <<>>
    /\ f_out = <<>>

CmdIdle ==
    /\ backend = "linux"
    /\ abbr_path = FALSE
    /\ fmt_contents = <<>>
    /\ raw_contents = <<>>
    /\ last_added = <<>>

(***************************************************************************)
(* Bounds                                                                  *)
(***************************************************************************)
MaxLen == 4

MaxWidth == 4

MaxColumns == 2

MaxKeywords == 2

MaxPid == 2

(***************************************************************************)
(* Strings                                                                 *)
(***************************************************************************)
ESC == "ESC"

RECURSIVE SeqsUpTo(_, _)
SeqsUpTo(S, n) ==
    IF n = 0 THEN {<<>>}
    ELSE LET shorter == SeqsUpTo(S, n - 1)
         IN shorter \cup {Append(x, c) : x \in {y \in shorter : Len(y) = n - 1}, c \in S}

RECURSIVE repeat(_, _)
repeat(c, n) == IF n = 0 THEN <<>> ELSE <<c>> \o repeat(c, n - 1)

IsPrefix(p, s) == Len(p) <= Len(s) /\ SubSeq(s, 1, Len(p)) = p

(***************************************************************************)
(* Text rendering utilities (util.rs)                                      *)
(***************************************************************************)
TextChars == {ESC, "m", "a", "WIDE", "ZW"}

Texts == SeqsUpTo(TextChars, MaxLen)

Aligns == {"Left", "Right", "Center"}

\* UnicodeWidthChar::width(c).unwrap_or_default(): a control character has
\* no width (None, hence 0), a wide character 2, a combining character 0.
CharWidth(c) ==
    CASE c = ESC -> 0
      [] c = "WIDE" -> 2
      [] c = "ZW" -> 0
      [] OTHER -> 1

\* UnicodeWidthStr::width(x): the sum of the characters' widths, escape
\* sequence bytes included.  A control character counts cw columns: 0 in
\* unicode-width 0.1, 1 in unicode-width 0.2.
ControlStrWidths == {0, 1}

RECURSIVE StrWidth(_, _)
StrWidth(x, cw) ==
    IF x = <<>> THEN 0
    ELSE (IF Head(x) = ESC THEN cw ELSE CharWidth(Head(x))) + StrWidth(Tail(x), cw)

\* The loop of truncate: i is the position of the next character, ret is
\* whether the loop left by the break.
RECURSIVE truncate_loop(_, _, _, _, _, _)
truncate_loop(s, width, i, total_width, buf, escape) ==
    IF i > Len(s) THEN [ret |-> FALSE, buf |-> buf]
    ELSE LET c == s[i]
             esc == escape \/ c = ESC
         IN IF esc
            THEN truncate_loop(s, width, i + 1, total_width, Append(buf, c),
                               IF c = "m" THEN FALSE ELSE TRUE)
            ELSE LET total == total_width + CharWidth(c)
                 IN IF total > width
                    THEN [ret |-> TRUE, buf |-> buf]
                    ELSE truncate_loop(s, width, i + 1, total, Append(buf, c), FALSE)

\* Mutant: the escape character itself is skipped instead of copied.
RECURSIVE truncate_loop_skip_esc(_, _, _, _, _, _)
truncate_loop_skip_esc(s, width, i, total_width, buf, escape) ==
    IF i > Len(s) THEN [ret |-> FALSE, buf |-> buf]
    ELSE LET c == s[i]
             esc == escape \/ c = ESC
         IN IF esc
            THEN truncate_loop_skip_esc(s, width, i + 1, total_width,
                                        IF c = ESC THEN buf ELSE Append(buf, c),
                                        IF c = "m" THEN FALSE ELSE TRUE)
            ELSE LET total == total_width + CharWidth(c)
                 IN IF total > width
                    THEN [ret |-> TRUE, buf |-> buf]
                    ELSE truncate_loop_skip_esc(s, width, i + 1, total, Append(buf, c), FALSE)

truncate_skip_esc(s, width) ==
    LET r == truncate_loop_skip_esc(s, width, 1, 0, <<>>, FALSE)
    IN IF r.ret THEN r.buf ELSE s

\* Mutant: the loop breaks as soon as the width is reached (>= for >).
RECURSIVE truncate_loop_ge(_, _, _, _, _, _)
truncate_loop_ge(s, width, i, total_width, buf, escape) ==
    IF i > Len(s) THEN [ret |-> FALSE, buf |-> buf]
    ELSE LET c == s[i]
             esc == escape \/ c = ESC
         IN IF esc
            THEN truncate_loop_ge(s, width, i + 1, total_width, Append(buf, c),
                                  IF c = "m" THEN FALSE ELSE TRUE)
            ELSE LET total == total_width + CharWidth(c)
                 IN IF total >= width
                    THEN [ret |-> TRUE, buf |-> buf]
                    ELSE truncate_loop_ge(s, width, i + 1, total, Append(buf, c), FALSE)

truncate_ge(s, width) ==
    LET r == truncate_loop_ge(s, width, 1, 0, <<>>, FALSE)
    IN IF r.ret THEN r.buf ELSE s

truncate(s, width) ==
    LET r == truncate_loop(s, width, 1, 0, <<>>, FALSE)
    IN IF r.ret THEN r.buf ELSE s

adjust(x, len, align, cw) ==
    IF len < StrWidth(x, cw)
    THEN truncate(x, len)
    ELSE LET space == len - StrWidth(x, cw)
         IN CASE align = "Left" -> x \o repeat(" ", space)
              [] align = "Right" -> repeat(" ", space) \o x
              [] align = "Center" ->
                    LET left == space \div 2
                        right == (space \div 2) + (space % 2)
                    IN repeat(" ", left) \o x \o repeat(" ", right)

(***************************************************************************)
(* Search engine (util.rs)                                                 *)
(***************************************************************************)
Logics == {"And", "Or", "Nand", "Nor"}

Cases == {"Smart", "Insensitive", "Sensitive"}

\* Keywords: all lowercase ASCII, with an ASCII uppercase letter, with a
\* digit, a non-ASCII uppercase letter, a non-ASCII lowercase letter.
KeywordPool ==
    { <<"a", "b">>, <<"a", "B">>, <<"a", "1">>, <<"UE">>, <<"le">> }

\* What a column holds for the searched process.
ContentPool ==
    { <<"x", "A", "B", "y">>, <<"a", "b">>, <<"a", "1">>, <<"UE">> }

AsciiUpper == {"A", "B"}

AsciiLowerOf == [c \in AsciiUpper |-> IF c = "A" THEN "a" ELSE "b"]

\* str::to_ascii_lowercase: only the ASCII letters A-Z change.
to_ascii_lowercase(s) ==
    [i \in 1..Len(s) |-> IF s[i] \in AsciiUpper THEN AsciiLowerOf[s[i]] ELSE s[i]]

\* str::to_lowercase: every uppercase letter changes.
to_lowercase(s) ==
    [i \in 1..Len(s) |->
        IF s[i] \in AsciiUpper THEN AsciiLowerOf[s[i]]
        ELSE IF s[i] = "UE" THEN "le" ELSE s[i]]

Contains(hay, needle) ==
    \E i \in 0..(Len(hay) - Len(needle)) : SubSeq(hay, i + 1, i + Len(needle)) = needle

\* Column::find_partial / Column::find_exact of one column, on the value it
\* holds for the process.
Column_find_partial(content, needle, fold_case) ==
    IF fold_case
    THEN Contains(to_lowercase(content), to_lowercase(needle))
    ELSE Contains(content, needle)

Column_find_exact(content, needle, fold_case) ==
    IF fold_case
    THEN to_lowercase(content) = to_lowercase(needle)
    ELSE content = needle

Column_find(exact, content, needle, fold_case) ==
    IF exact
    THEN Column_find_exact(content, needle, fold_case)
    ELSE Column_find_partial(content, needle, fold_case)

InitRet(logic) ==
    CASE logic = "And" -> TRUE
      [] logic = "Or" -> FALSE
      [] logic = "Nand" -> TRUE
      [] logic = "Nor" -> FALSE

\* Mutant: Smart compares with the full (Unicode) lowercase form.
ignore_case_unicode(case, keyword) ==
    CASE case = "Smart" -> keyword = to_lowercase(keyword)
      [] case = "Insensitive" -> TRUE
      [] case = "Sensitive" -> FALSE

ignore_case(case, keyword) ==
    CASE case = "Smart" -> keyword = to_ascii_lowercase(keyword)
      [] case = "Insensitive" -> TRUE
      [] case = "Sensitive" -> FALSE

\* The (keyword, content_to_lowercase) pair handed to the columns.
EffectiveKeyword(case, keyword) ==
    IF ignore_case(case, keyword)
    THEN [keyword |-> to_ascii_lowercase(keyword), content_to_lowercase |-> TRUE]
    ELSE [keyword |-> keyword, content_to_lowercase |-> FALSE]

\* The loop over the columns for keyword number w, from column j on: it
\* stops at the first column that matches.  calls lists the column calls.
RECURSIVE ColumnLoop(_, _, _, _, _, _)
ColumnLoop(exact, columns, w, eff, j, calls) ==
    IF j > Len(columns) THEN [hit |-> FALSE, calls |-> calls]
    ELSE LET call == [w |-> w, column |-> j, keyword |-> eff.keyword,
                      content_to_lowercase |-> eff.content_to_lowercase]
             made == Append(calls, call)
         IN IF Column_find(exact, columns[j], eff.keyword, eff.content_to_lowercase)
            THEN [hit |-> TRUE, calls |-> made]
            ELSE ColumnLoop(exact, columns, w, eff, j + 1, made)

\* Mutant: Nand negates the conjunction.
Combine_negating(logic, ret, hit) ==
    CASE logic = "And" -> ret /\ hit
      [] logic = "Or" -> ret \/ hit
      [] logic = "Nand" -> ~(ret /\ hit)
      [] logic = "Nor" -> ret \/ hit

Combine(logic, ret, hit) ==
    CASE logic = "And" -> ret /\ hit
      [] logic = "Or" -> ret \/ hit
      [] logic = "Nand" -> ret /\ hit
      [] logic = "Nor" -> ret \/ hit

\* The loop over the keywords, from keyword number w on.
RECURSIVE KeywordLoop(_, _, _, _, _, _, _, _)
KeywordLoop(exact, columns, keyword, logic, case, w, ret, calls) ==
    IF w > Len(keyword) THEN [ret |-> ret, calls |-> calls]
    ELSE LET eff == EffectiveKeyword(case, keyword[w])
             r == ColumnLoop(exact, columns, w, eff, 1, calls)
         IN KeywordLoop(exact, columns, keyword, logic, case, w + 1,
                        Combine(logic, ret, r.hit), r.calls)

find_partial(columns, keyword, logic, case) ==
    KeywordLoop(FALSE, columns, keyword, logic, case, 1, InitRet(logic), <<>>)

find_exact(columns, keyword, logic, case) ==
    KeywordLoop(TRUE, columns, keyword, logic, case, 1, InitRet(logic), <<>>)

(***************************************************************************)
(* Text specification: the inputs are drawn in the initial state, the     *)
(* actions call truncate (once, then again on its own result) and adjust. *)
(***************************************************************************)
TextInit ==
    /\ SearchIdle
    /\ ThemeIdle
    /\ AbbrIdle
    /\ CmdIdle
    /\ t_s \in Texts
    /\ t_width \in 0..MaxWidth
    /\ t_op = "input"
    /\ t_out = <<>>
    /\ t_prev = <<>>
    /\ t_align = "Left"
    /\ t_cw = 0

CallTruncate ==
    /\ t_op = "input"
    /\ t_out' = truncate(t_s, t_width)
    /\ t_op' = "truncate"
    /\ UNCHANGED <<t_s, t_width, t_prev, t_align, t_cw>>
    /\ UNCHANGED <<searchVars, themeVars, abbrVars, cmdVars>>

\* truncate applied to the result of the previous truncate call.
CallTruncateAgain ==
    /\ t_op = "truncate"
    /\ t_prev' = t_out
    /\ t_out' = truncate(t_out, t_width)
    /\ t_op' = "retruncate"
    /\ UNCHANGED <<t_s, t_width, t_align, t_cw>>
    /\ UNCHANGED <<searchVars, themeVars, abbrVars, cmdVars>>

CallAdjust ==
    /\ t_op = "input"
    /\ \E align \in Aligns, cw \in ControlStrWidths :
          /\ t_align' = align
          /\ t_cw' = cw
          /\ t_out' = adjust(t_s, t_width, align, cw)
    /\ t_op' = "adjust"
    /\ UNCHANGED <<t_s, t_width, t_prev>>
    /\ UNCHANGED <<searchVars, themeVars, abbrVars, cmdVars>>

TextNext == CallTruncate \/ CallTruncateAgain \/ CallAdjust

SpecText == TextInit /\ [][TextNext]_vars

(***************************************************************************)
(* Search specification: a query and a column set are drawn in the        *)
(* initial state, the actions run find_partial and find_exact on them.    *)
(***************************************************************************)
SearchInit ==
    /\ TextIdle
    /\ ThemeIdle
    /\ AbbrIdle
    /\ CmdIdle
    /\ q_columns \in SeqsUpTo(ContentPool, MaxColumns)
    /\ q_keyword \in SeqsUpTo(KeywordPool, MaxKeywords)
    /\ q_logic \in Logics
    /\ q_case \in Cases
    /\ q_op = "input"
    /\ q_ret = FALSE
    /\ q_calls = <<>>

CallFindPartial ==
    /\ q_op = "input"
    /\ LET r == find_partial(q_columns, q_keyword, q_logic, q_case)
       IN /\ q_ret' = r.ret
          /\ q_calls' = r.calls
    /\ q_op' = "find_partial"
    /\ UNCHANGED <<q_columns, q_keyword, q_logic, q_case>>
    /\ UNCHANGED <<textVars, themeVars, abbrVars, cmdVars>>

CallFindExact ==
    /\ q_op = "input"
    /\ LET r == find_exact(q_columns, q_keyword, q_logic, q_case)
       IN /\ q_ret' = r.ret
          /\ q_calls' = r.calls
    /\ q_op' = "find_exact"
    /\ UNCHANGED <<q_columns, q_keyword, q_logic, q_case>>
    /\ UNCHANGED <<textVars, themeVars, abbrVars, cmdVars>>

SearchNext == CallFindPartial \/ CallFindExact

SpecSearch == SearchInit /\ [][SearchNext]_vars

(***************************************************************************)
(* Theme resolver (util.rs, get_theme)                                     *)
(***************************************************************************)
ThemeModes == {"Auto", "Dark", "Light"}

\* Duration::from_millis(100) and Duration::from_millis(1000).
MinimumTimeoutMs == 100

LatencyCeilingMs == 1000

\* Round-trip latencies (ms) termbg::latency may measure within its ceiling.
Latencies == {10, 50, 51, LatencyCeilingMs}

\* Mutant: the probe runs as soon as one stream is a terminal (|| for &&).
AnyTerminal(tty) == tty.stdout \/ tty.stderr \/ tty.stdin

AllTerminals(tty) == tty.stdout /\ tty.stderr /\ tty.stdin

ThemeInit ==
    /\ TextIdle
    /\ SearchIdle
    /\ AbbrIdle
    /\ CmdIdle
    /\ th_opt \in ThemeModes \cup {"None"}
    /\ th_config \in ThemeModes
    /\ th_tty \in [stdout : BOOLEAN, stderr : BOOLEAN, stdin : BOOLEAN]
    /\ th_pc = "start"
    /\ th_theme = "None"
    /\ th_timeout = 0
    /\ th_probe = <<>>
    /\ th_ret = "None"

\* let theme = match (opt.theme, &config.display.theme)
SelectTheme ==
    /\ th_pc = "start"
    /\ th_theme' = IF th_opt # "None" THEN th_opt ELSE th_config
    /\ th_pc' = "match"
    /\ UNCHANGED <<th_opt, th_config, th_tty, th_timeout, th_probe, th_ret>>
    /\ UNCHANGED <<textVars, searchVars, abbrVars, cmdVars>>

\* x => x
ReturnConfigured ==
    /\ th_pc = "match"
    /\ th_theme # "Auto"
    /\ th_ret' = th_theme
    /\ th_pc' = "done"
    /\ UNCHANGED <<th_opt, th_config, th_tty, th_theme, th_timeout, th_probe>>
    /\ UNCHANGED <<textVars, searchVars, abbrVars, cmdVars>>

\* Auto, and a stream is piped or redirected: Dark.
NotInteractive ==
    /\ th_pc = "match"
    /\ th_theme = "Auto"
    /\ ~AllTerminals(th_tty)
    /\ th_ret' = "Dark"
    /\ th_pc' = "done"
    /\ UNCHANGED <<th_opt, th_config, th_tty, th_theme, th_timeout, th_probe>>
    /\ UNCHANGED <<textVars, searchVars, abbrVars, cmdVars>>

Interactive ==
    /\ th_pc = "match"
    /\ th_theme = "Auto"
    /\ AllTerminals(th_tty)
    /\ th_pc' = "latency"
    /\ UNCHANGED <<th_opt, th_config, th_tty, th_theme, th_timeout, th_probe, th_ret>>
    /\ UNCHANGED <<textVars, searchVars, abbrVars, cmdVars>>

\* termbg::latency answers Ok(latency): the timeout is max(2 * latency, 100 ms).
LatencyOk ==
    /\ th_pc = "latency"
    /\ \E latency \in Latencies :
          th_timeout' = IF latency * 2 > MinimumTimeoutMs
                        THEN latency * 2
                        ELSE MinimumTimeoutMs
    /\ th_probe' = Append(th_probe, [call |-> "latency", ok |-> TRUE])
    /\ th_pc' = "query"
    /\ UNCHANGED <<th_opt, th_config, th_tty, th_theme, th_ret>>
    /\ UNCHANGED <<textVars, searchVars, abbrVars, cmdVars>>

\* termbg::latency answers Err: return Dark.
LatencyErr ==
    /\ th_pc = "latency"
    /\ th_probe' = Append(th_probe, [call |-> "latency", ok |-> FALSE])
    /\ th_ret' = "Dark"
    /\ th_pc' = "done"
    /\ UNCHANGED <<th_opt, th_config, th_tty, th_theme, th_timeout>>
    /\ UNCHANGED <<textVars, searchVars, abbrVars, cmdVars>>

\* termbg::theme(timeout) answers Ok(Dark) or Ok(Light).
ThemeOk ==
    /\ th_pc = "query"
    /\ \E answer \in {"Dark", "Light"} : th_ret' = answer
    /\ th_probe' = Append(th_probe, [call |-> "theme", ok |-> TRUE])
    /\ th_pc' = "done"
    /\ UNCHANGED <<th_opt, th_config, th_tty, th_theme, th_timeout>>
    /\ UNCHANGED <<textVars, searchVars, abbrVars, cmdVars>>

\* termbg::theme(timeout) answers Err: Dark.
ThemeErr ==
    /\ th_pc = "query"
    /\ th_ret' = "Dark"
    /\ th_probe' = Append(th_probe, [call |-> "theme", ok |-> FALSE])
    /\ th_pc' = "done"
    /\ UNCHANGED <<th_opt, th_config, th_tty, th_theme, th_timeout>>
    /\ UNCHANGED <<textVars, searchVars, abbrVars, cmdVars>>

ThemeNext ==
    \/ SelectTheme
    \/ ReturnConfigured
    \/ NotInteractive
    \/ Interactive
    \/ LatencyOk
    \/ LatencyErr
    \/ ThemeOk
    \/ ThemeErr

\* get_theme is straight-line code and each probe call returns within its
\* timeout, so a step that is enabled is taken.
SpecTheme == ThemeInit /\ [][ThemeNext]_vars /\ WF_vars(ThemeNext)

(***************************************************************************)
(* Path abbreviation (util.rs)                                             *)
(***************************************************************************)
Whitespace == {" ", "NL", "TAB"}

NixStoreRoot == <<"/", "n", "i", "x", "/", "s", "t", "o", "r", "e", "/">>

Ellipsis == <<".", ".", ".">>

BinSegment == <<"/", "b", "i", "n", "/">>

Hyphen == <<"-">>

Tilde == <<"~", "/">>

\* Command texts format_command is given.
CommandTexts ==
    { <<"/", "n", "i", "x", "/", "s", "t", "o", "r", "e", "/", "a", "b", "c", "d", "e", "f", "1", "2", "3", "-", "f", "o", "o", "-", "1", ".", "0", "/", "b", "i", "n", "/", "f", "o", "o">>,
      <<"/", "n", "i", "x", "/", "s", "t", "o", "r", "e", "/", "a", "b", "c", "d", "e", "f", "1", "2", "3", "-", "f", "o", "o", "-", "1", ".", "0", "/", "b", "i", "n", "/", "f", "o", "o", " ", "-", "-", "o", "p", "t", " ", "v">>,
      <<"/", "n", "i", "x", "/", "s", "t", "o", "r", "e", "/", "h", "4", "s", "h", "-", "b", "a", "r", "/", "b", "a", "r">>,
      <<"/", "n", "i", "x", "/", "s", "t", "o", "r", "e", "/", "h", "4", "s", "h", "-", "b", "a", "r", "/", "l", "i", "b", "e", "x", "e", "c", "/", "b", "a", "r", "-", "w", "r", "a", "p", "p", "e", "d", " ", "-", "x">>,
      <<"/", "n", "i", "x", "/", "s", "t", "o", "r", "e", "/", "h", "4", "s", "h", "-", "b", "a", "r">>,
      <<"/", "n", "i", "x", "/", "s", "t", "o", "r", "e", "r", "o", "o", "m", "/", "x">>,
      <<"/", "h", "o", "m", "e", "/", "a", "l", "i", "c", "e", "/", "b", "i", "n", "/", "t", "o", "o", "l", " ", "a", "r", "g">>,
      <<"/", "h", "o", "m", "e", "/", "a", "l", "i", "c", "i", "a", "/", "b", "i", "n", "/", "t", "o", "o", "l">>,
      <<"/", "u", "s", "r", "/", "b", "i", "n", "/", "e", "n", "v", " ", "s", "h">>,
      <<"[", "k", "w", "o", "r", "k", "e", "r", "]">>,
      <<"v", "i", "m", " ", "/", "h", "o", "m", "e", "/", "a", "l", "i", "c", "e", "/", "x">>,
      <<"n", "i", "x", "/", "s", "t", "o", "r", "e", "/", "h", "4", "s", "h", "-", "b", "a", "r", "/", "b", "i", "n", "/", "b", "a", "r">> }

\* The values of the HOME environment variable; Unset: env::var fails.
Homes == {"Unset", <<"/", "h", "o", "m", "e", "/", "a", "l", "i", "c", "e">>, <<"/", "n", "i", "x", "/", "s", "t", "o", "r", "e">>}

MaxOf(S) == CHOOSE x \in S : \A y \in S : y <= x

MinOf(S) == CHOOSE x \in S : \A y \in S : x <= y

\* Where pat occurs in s.
Occurrences(s, pat) ==
    {i \in 1..(Len(s) - Len(pat) + 1) : SubSeq(s, i, i + Len(pat) - 1) = pat}

\* str::rsplit_once: the text around the last occurrence of pat, if any.
rsplit_once(s, pat) ==
    IF Occurrences(s, pat) = {}
    THEN [some |-> FALSE, left |-> <<>>, right |-> <<>>]
    ELSE LET i == MaxOf(Occurrences(s, pat))
         IN [some |-> TRUE,
             left |-> SubSeq(s, 1, i - 1),
             right |-> SubSeq(s, i + Len(pat), Len(s))]

\* s.split_whitespace().next().unwrap_or(s): the first whitespace-delimited
\* token, or s itself when it holds none.
first_token_or(s) ==
    LET starts == {i \in 1..Len(s) : s[i] \notin Whitespace}
    IN IF starts = {} THEN s
       ELSE LET b == MinOf(starts)
                stops == {j \in b..Len(s) : s[j] \in Whitespace}
                e == IF stops = {} THEN Len(s) ELSE MinOf(stops) - 1
            IN SubSeq(s, b, e)

\* Path::components on Unix: the text is cut at every "/"; empty pieces and
\* "." pieces are skipped; a leading "/" is the root.  A component is kept
\* as the pair of its first and last position in the text.
HasRoot(s) == Len(s) > 0 /\ s[1] = "/"

ComponentStarts(s) ==
    {i \in 1..Len(s) : s[i] # "/" /\ (i = 1 \/ s[i - 1] = "/")}

ComponentEnd(s, i) ==
    MaxOf({j \in i..Len(s) : \A k \in i..j : s[k] # "/"})

RECURSIVE SortedSeq(_)
SortedSeq(S) ==
    IF S = {} THEN <<>> ELSE <<MinOf(S)>> \o SortedSeq(S \ {MinOf(S)})

components(s) ==
    LET spans == [n \in 1..Cardinality(ComponentStarts(s)) |->
                     LET i == SortedSeq(ComponentStarts(s))[n]
                     IN [first |-> i, last |-> ComponentEnd(s, i)]]
    IN SelectSeq(spans, LAMBDA c : SubSeq(s, c.first, c.last) # <<".">>)

ComponentText(s, c) == SubSeq(s, c.first, c.last)

\* Path::strip_prefix: base's components must be the first components of
\* the path; the answer is the rest of the text, from the first component
\* left to the last one.
strip_prefix(s, base) ==
    LET cs == components(s)
        cb == components(base)
        matches ==
            /\ HasRoot(base) = HasRoot(s)
            /\ Len(cb) <= Len(cs)
            /\ \A n \in 1..Len(cb) : ComponentText(s, cs[n]) = ComponentText(base, cb[n])
    IN IF ~matches THEN [ok |-> FALSE, rest |-> <<>>]
       ELSE IF Len(cs) = Len(cb) THEN [ok |-> TRUE, rest |-> <<>>]
       ELSE [ok |-> TRUE, rest |-> SubSeq(s, cs[Len(cb) + 1].first, cs[Len(cs)].last)]

truncate_home_path(input, home) ==
    IF home = "Unset" THEN input
    ELSE LET r == strip_prefix(input, home)
         IN IF r.ok THEN Tilde \o r.rest ELSE input

truncate_nix_store_path(input) ==
    LET r == strip_prefix(input, NixStoreRoot)
    IN IF r.ok
       THEN LET comps == components(r.rest)
            IN IF Len(comps) >= 2
               THEN LET filename == ComponentText(r.rest, comps[Len(comps)])
                        dash == rsplit_once(filename, Hyphen)
                        innerres == IF dash.some
                                    THEN dash.left \o first_token_or(dash.right)
                                    ELSE filename
                        bin == rsplit_once(innerres, BinSegment)
                    IN IF bin.some
                       THEN bin.left \o first_token_or(bin.right)
                       ELSE NixStoreRoot \o Ellipsis \o filename
               ELSE input
       ELSE input

truncate_command_path(input, home) ==
    truncate_home_path(truncate_nix_store_path(input), home)

format_command(cmd, abbr, home) ==
    IF abbr THEN truncate_command_path(cmd, home) ELSE cmd

(***************************************************************************)
(* Abbreviation specification: a command text, the abbr flag and HOME are *)
(* drawn in the initial state; the action calls format_command.           *)
(***************************************************************************)
AbbrInit ==
    /\ TextIdle
    /\ SearchIdle
    /\ ThemeIdle
    /\ CmdIdle
    /\ env_home \in Homes
    /\ f_cmd \in CommandTexts
    /\ f_abbr \in BOOLEAN
    /\ f_op = "input"
    /\ f_store = <<>>
    /\ f_out = <<>>

\* f_store records what the store-path step alone makes of the text.
CallFormatCommand ==
    /\ f_op = "input"
    /\ f_out' = format_command(f_cmd, f_abbr, env_home)
    /\ f_store' = truncate_nix_store_path(f_cmd)
    /\ f_op' = "format_command"
    /\ UNCHANGED <<env_home, f_cmd, f_abbr>>
    /\ UNCHANGED <<textVars, searchVars, themeVars, cmdVars>>

AbbrNext == CallFormatCommand

SpecAbbr == AbbrInit /\ [][AbbrNext]_vars

(***************************************************************************)
(* Command column (columns/command.rs)                                     *)
(***************************************************************************)
Backends == {"linux", "macos", "windows", "freebsd"}

Pids == 1..MaxPid

\* The argument lists of the sampled processes.
ArgLists ==
    { <<>>,
      <<<<"a">>>>,
      <<<<"a">>, <<"b", " ", "c">>>>,
      <<<<"x", "NL", "y">>, <<"t", "TAB", "z">>>>,
      <<<<"/", "h", "o", "m", "e", "/", "a", "l", "i", "c", "e", "/", "b", "i", "n", "/", "t", "o", "o", "l">>, <<"a", "r", "g">>>>,
      <<<<"/", "n", "i", "x", "/", "s", "t", "o", "r", "e", "/", "h", "4", "s", "h", "-", "b", "a", "r", "/", "b", "i", "n", "/", "b", "a", "r">>>> }

ShortName == <<"k", "w", "o", "r", "k", "e", "r">>

\* The command text the windows sampler hands over in proc.command.
WindowsCommands == { <<"S", "y", "s", "t", "e", "m">>, <<"C", ":", "\\", "t", "o", "o", "l", ".", "e", "x", "e", " ", "/", "x">> }

\* A process snapshot.  args_ok: the argument list could be read (linux:
\* cmdline() is Ok; macos: curr_path is Some).  comm_ok: the short name is a
\* NUL-terminated string (freebsd: ptr_to_cstr is Ok).  command: the windows
\* command text.
Snapshots(os) ==
    CASE os = "linux" ->
            [args_ok : {TRUE}, args : ArgLists, comm : {ShortName}, comm_ok : {TRUE}, command : {<<>>}]
            \cup [args_ok : {FALSE}, args : {<<>>}, comm : {ShortName}, comm_ok : {TRUE}, command : {<<>>}]
      [] os = "macos" ->
            [args_ok : {TRUE}, args : ArgLists, comm : {ShortName}, comm_ok : {TRUE}, command : {<<>>}]
            \cup [args_ok : {FALSE}, args : {<<>>}, comm : {ShortName}, comm_ok : {TRUE}, command : {<<>>}]
      [] os = "freebsd" ->
            [args_ok : {TRUE}, args : ArgLists, comm : {ShortName}, comm_ok : BOOLEAN, command : {<<>>}]
      [] os = "windows" ->
            [args_ok : {FALSE}, args : {<<>>}, comm : {ShortName}, comm_ok : {TRUE}, command : WindowsCommands]

\* Each argument followed by a space, concatenated.
RECURSIVE push_space_collect(_)
push_space_collect(args) ==
    IF args = <<>> THEN <<>>
    ELSE Head(args) \o <<" ">> \o push_space_collect(Tail(args))

\* String::pop: the text without its last character.
pop(s) == IF s = <<>> THEN s ELSE SubSeq(s, 1, Len(s) - 1)

\* cmd.replace(['\n', '\t'], " ")
replace_newline_tab(s) ==
    [i \in 1..Len(s) |-> IF s[i] \in {"NL", "TAB"} THEN " " ELSE s[i]]

Bracketed(name) == <<"[">> \o name \o <<"]">>

\* The values add stores, per backend: [fmt, raw].
linux_contents(sn, abbr, home) ==
    LET base_content ==
            IF sn.args_ok
            THEN IF sn.args # <<>>
                 THEN replace_newline_tab(pop(push_space_collect(sn.args)))
                 ELSE Bracketed(sn.comm)
            ELSE sn.comm
    IN [fmt |-> format_command(base_content, abbr, home), raw |-> base_content]

macos_contents(sn) ==
    LET fmt_content ==
            IF sn.args_ok
            THEN IF sn.args # <<>>
                 THEN replace_newline_tab(pop(push_space_collect(sn.args)))
                 ELSE <<>>
            ELSE <<>>
    IN [fmt |-> fmt_content, raw |-> fmt_content]

windows_contents(sn) == [fmt |-> sn.command, raw |-> sn.command]

freebsd_contents(sn) ==
    LET command ==
            IF sn.args = <<>>
            THEN IF sn.comm_ok THEN Bracketed(sn.comm) ELSE <<>>
            ELSE push_space_collect(sn.args)
    IN [fmt |-> command, raw |-> command]

contents(os, sn, abbr, home) ==
    CASE os = "linux" -> linux_contents(sn, abbr, home)
      [] os = "macos" -> macos_contents(sn)
      [] os = "windows" -> windows_contents(sn)
      [] os = "freebsd" -> freebsd_contents(sn)

\* HashMap::insert: the entry of key k is set, the other entries are kept.
insert(map, k, v) ==
    [p \in DOMAIN map \cup {k} |-> IF p = k THEN v ELSE map[p]]

\* Mutant: an id that already has an entry keeps it (entry().or_insert).
add_keep_first(pid, sn) ==
    LET c == contents(backend, sn, abbr_path, env_home)
    IN /\ fmt_contents' = IF pid \in DOMAIN fmt_contents
                          THEN fmt_contents ELSE insert(fmt_contents, pid, c.fmt)
       /\ raw_contents' = IF pid \in DOMAIN raw_contents
                          THEN raw_contents ELSE insert(raw_contents, pid, c.raw)
       /\ last_added' = insert(last_added, pid, sn)

\* Command::add.  last_added remembers the snapshot of the latest add of
\* each id.
add(pid, sn) ==
    LET c == contents(backend, sn, abbr_path, env_home)
    IN /\ fmt_contents' = insert(fmt_contents, pid, c.fmt)
       /\ raw_contents' = insert(raw_contents, pid, c.raw)
       /\ last_added' = insert(last_added, pid, sn)

(***************************************************************************)
(* Command specification: the build's backend, the abbr_path setting of   *)
(* Command::new and HOME are drawn in the initial state, where both maps   *)
(* are empty; the action adds a process.                                   *)
(***************************************************************************)
CmdInit ==
    /\ TextIdle
    /\ SearchIdle
    /\ ThemeIdle
    /\ env_home \in Homes
    /\ f_cmd = <<>>
    /\ f_abbr = FALSE
    /\ f_op = "idle"
    /\ f_store = <<>>
    /\ f_out = <<>>
    /\ backend \in Backends
    /\ abbr_path \in BOOLEAN
    /\ fmt_contents = <<>>
    /\ raw_contents = <<>>
    /\ last_added = <<>>

AddProcess ==
    /\ \E pid \in Pids, sn \in Snapshots(backend) : add(pid, sn)
    /\ UNCHANGED <<backend, abbr_path>>
    /\ UNCHANGED <<textVars, searchVars, themeVars, abbrVars>>

CmdNext == AddProcess

SpecCmd == CmdInit /\ [][CmdNext]_vars

(***************************************************************************)
(* Properties of the search engine                                         *)
(***************************************************************************)
\* Keyword number w is matched by at least one column.
MatchedBySomeColumn(exact, w) ==
    LET eff == EffectiveKeyword(q_case, q_keyword[w])
    IN \E j \in 1..Len(q_columns) :
          Column_find(exact, q_columns[j], eff.keyword, eff.content_to_lowercase)

ExpectedResult(exact) ==
    IF q_logic \in {"And", "Nand"}
    THEN \A w \in 1..Len(q_keyword) : MatchedBySomeColumn(exact, w)
    ELSE \E w \in 1..Len(q_keyword) : MatchedBySomeColumn(exact, w)

NonNegated(logic) ==
    CASE logic = "Nand" -> "And"
      [] logic = "Nor" -> "Or"
      [] OTHER -> logic

\* C1: find_partial and find_exact return, for And and Nand, whether every
\* keyword is matched by some column, and for Or and Nor, whether some
\* keyword is matched by some column; Nand gives what And gives and Nor what
\* Or gives.
Thm_C1_Combinators ==
    /\ q_op = "find_partial" =>
          /\ q_ret = ExpectedResult(FALSE)
          /\ q_ret = find_partial(q_columns, q_keyword, NonNegated(q_logic), q_case).ret
    /\ q_op = "find_exact" =>
          /\ q_ret = ExpectedResult(TRUE)
          /\ q_ret = find_exact(q_columns, q_keyword, NonNegated(q_logic), q_case).ret

\* A Nand query of two keywords, both matched, answers TRUE.
Wit_C1_Combinators ==
    /\ q_op = "find_partial"
    /\ q_logic = "Nand"
    /\ Len(q_keyword) = 2
    /\ q_keyword[1] # q_keyword[2]
    /\ q_ret = TRUE

LowercaseLetters == {"a", "b", "x", "y", "le"}

AllLowercase(k) == \A i \in 1..Len(k) : k[i] \in LowercaseLetters

NoAsciiUppercase(k) == \A i \in 1..Len(k) : k[i] \notin AsciiUpper

Searched == q_op \in {"find_partial", "find_exact"}

InEscapeAt(s, i) ==
    \E j \in 1..i : s[j] = ESC /\ \A k \in j..(i - 1) : s[k] # "m"

\* The width of the first i characters, counting the Normal-state ones only.
RECURSIVE NormalWidthUpTo(_, _)
NormalWidthUpTo(s, i) ==
    IF i = 0 THEN 0
    ELSE NormalWidthUpTo(s, i - 1) + (IF InEscapeAt(s, i) THEN 0 ELSE CharWidth(s[i]))

DisplayWidth(s) == NormalWidthUpTo(s, Len(s))

\* The Normal-state characters at which the running total is above w.
Overflows(s, w) ==
    {i \in 1..Len(s) : ~InEscapeAt(s, i) /\ NormalWidthUpTo(s, i) > w}

FirstOverflow(s, w) == CHOOSE i \in Overflows(s, w) : \A j \in Overflows(s, w) : i <= j

\* C3: truncate is idempotent: truncating the result of truncate(s, w) to
\* the same width w gives that result again.
Thm_C3_TruncateIdempotent ==
    t_op = "retruncate" => t_out = t_prev

\* A string with an escape sequence was really cut, then truncated again.
Wit_C3_TruncateIdempotent ==
    /\ t_op = "retruncate"
    /\ t_prev # t_s
    /\ \E i \in 1..Len(t_prev) : t_prev[i] = ESC

\* C4: truncate(s, w) is a prefix of s of Normal-state width at most w; it
\* ends immediately before the first Normal-state character that pushes the
\* running total above w, and it is s itself when no character does.
Thm_C4_TruncatePrefix ==
    t_op = "truncate" =>
        /\ IsPrefix(t_out, t_s)
        /\ DisplayWidth(t_out) <= t_width
        /\ IF Overflows(t_s, t_width) = {}
           THEN t_out = t_s
           ELSE t_out = SubSeq(t_s, 1, FirstOverflow(t_s, t_width) - 1)

\* A cut after a complete escape sequence and a counted character.
Wit_C4_TruncatePrefix ==
    /\ t_op = "truncate"
    /\ t_out # t_s
    /\ Len(t_out) >= 3
    /\ t_out[1] = ESC
    /\ t_out[2] = "m"
    /\ DisplayWidth(t_out) = t_width

\* What adjust returns when the width it measures is the display width.
ClaimedAdjust(x, len, align) ==
    IF DisplayWidth(x) > len
    THEN truncate(x, len)
    ELSE LET pad == len - DisplayWidth(x)
         IN CASE align = "Left" -> x \o repeat(" ", pad)
              [] align = "Right" -> repeat(" ", pad) \o x
              [] align = "Center" ->
                    repeat(" ", pad \div 2) \o x \o repeat(" ", pad - (pad \div 2))

\* C5 (as claimed): adjust returns truncate(text, width) when the display
\* width of the text (wide characters 2, escape-sequence bytes excluded)
\* exceeds the width, and otherwise the text padded with width - display
\* width spaces: on the right for Left, on the left for Right, and for Center
\* half on the left and the rest on the right.
Claim_C5_AdjustDisplayWidth ==
    t_op = "adjust" => t_out = ClaimedAdjust(t_s, t_width, t_align)

(***************************************************************************)
(* Properties of the theme resolver                                        *)
(***************************************************************************)
EffectiveTheme == IF th_opt # "None" THEN th_opt ELSE th_config

SomeStreamNotTerminal == ~th_tty.stdout \/ ~th_tty.stderr \/ ~th_tty.stdin

ThemeSafety ==
    /\ th_ret \in {"None", "Dark", "Light"}
    /\ th_pc = "done" => th_ret \in {"Dark", "Light"}
    /\ (EffectiveTheme = "Auto" /\ SomeStreamNotTerminal) =>
          /\ th_probe = <<>>
          /\ th_pc \notin {"latency", "query"}
          /\ th_pc = "done" => th_ret = "Dark"
    /\ \A n \in 1..Len(th_probe) :
          th_probe[n].call = "theme" =>
              /\ n = 2
              /\ th_probe[1] = [call |-> "latency", ok |-> TRUE]
    /\ (\E n \in 1..Len(th_probe) : ~th_probe[n].ok) =>
          (th_pc = "done" /\ th_ret = "Dark")

\* C10: theme resolution ends, and ends in Dark or Light; Auto with a stream
\* that is not a terminal gives Dark without any probe call; the background
\* colour query follows a successful latency measurement only; a failed
\* probe call gives Dark.
Thm_C10_ThemeResolution ==
    /\ []ThemeSafety
    /\ <>(th_pc = "done")

\* Auto resolved to Dark with a stream redirected and no probe call made.
Wit_C10_ThemeResolution ==
    /\ th_pc = "done"
    /\ EffectiveTheme = "Auto"
    /\ SomeStreamNotTerminal
    /\ th_tty.stdout
    /\ th_ret = "Dark"
    /\ th_probe = <<>>

(***************************************************************************)
(* Properties of the path abbreviation                                     *)
(***************************************************************************)
\* The text is /nix/store/<hash>-<name>.../bin/<exe>, arguments or not.
HasStoreBinShape(text) ==
    LET r == strip_prefix(text, NixStoreRoot)
        comps == components(r.rest)
    IN /\ r.ok
       /\ Len(comps) = 3
       /\ Occurrences(ComponentText(r.rest, comps[1]), Hyphen) # {}
       /\ ComponentText(r.rest, comps[2]) = <<"b", "i", "n">>

TokenAfterLastBin(text) == first_token_or(rsplit_once(text, BinSegment).right)

\* C9 (as claimed): with abbreviation enabled, a text of the shape
\* /nix/store/<hash>-<name>-<version>/bin/<exe> becomes the token that
\* follows its last /bin/ segment; the store-path step leaves a text that is
\* not under /nix/store/ unchanged.
Claim_C9_StorePathToken ==
    f_op = "format_command" =>
        /\ (f_abbr /\ HasStoreBinShape(f_cmd)) => f_out = TokenAfterLastBin(f_cmd)
        /\ ~strip_prefix(f_cmd, NixStoreRoot).ok => f_store = f_cmd

(***************************************************************************)
(* Properties of the Command column                                        *)
(***************************************************************************)
RECURSIVE JoinWithSpaces(_)
JoinWithSpaces(args) ==
    IF Len(args) = 1 THEN args[1]
    ELSE args[1] \o <<" ">> \o JoinWithSpaces(Tail(args))

\* The raw value the extraction algorithm gives for an argument list and a
\* short name.
ClaimedRaw(args, comm) ==
    IF args # <<>>
    THEN replace_newline_tab(JoinWithSpaces(args))
    ELSE Bracketed(comm)

\* C6 (as claimed): on every backend, a process whose argument list and
\* short name were read has the raw value: the arguments joined with single
\* spaces, newlines and tabs replaced by spaces, or "[" short_name "]" as
\* raw and formatted value when the list is empty.
Claim_C6_BackendsAgree ==
    \A pid \in DOMAIN raw_contents :
        LET sn == last_added[pid]
        IN (sn.args_ok /\ sn.comm_ok) =>
              /\ raw_contents[pid] = ClaimedRaw(sn.args, sn.comm)
              /\ sn.args = <<>> => fmt_contents[pid] = raw_contents[pid]

\* C7 (as claimed): the formatted value is the raw value when abbr_path is
\* off and the path-shortening pipeline applied to the raw value when it is
\* on; the raw value is the extracted text, never abbreviated.
Claim_C7_AbbreviationOnFormatted ==
    \A pid \in DOMAIN raw_contents :
        /\ raw_contents[pid] = contents(backend, last_added[pid], FALSE, env_home).raw
        /\ fmt_contents[pid] =
              IF abbr_path
              THEN truncate_command_path(raw_contents[pid], env_home)
              ELSE raw_contents[pid]

\* C8: both maps have the ids added so far as their keys, and hold for each
\* id the values of the latest add for that id.
Thm_C8_MapsInStep ==
    /\ DOMAIN fmt_contents = DOMAIN raw_contents
    /\ DOMAIN raw_contents = DOMAIN last_added
    /\ \A pid \in DOMAIN last_added :
          LET c == contents(backend, last_added[pid], abbr_path, env_home)
          IN /\ fmt_contents[pid] = c.fmt
             /\ raw_contents[pid] = c.raw

\* Two ids were added, the second one with an abbreviated formatted value.
Wit_C8_MapsInStep ==
    /\ DOMAIN raw_contents = Pids
    /\ raw_contents[1] # raw_contents[2]
    /\ fmt_contents[2] # raw_contents[2]

====
